---- MODULE Spec2Model ----
(***************************************************************************)
(* A model of the mcp-doc-forge server: the tool catalog, the dispatcher   *)
(* of tools/call requests and the tool handlers (the PDF page engine, the  *)
(* text partition engine and the single-file converters).  Every action is *)
(* the code between two awaits.  One call is in flight per behaviour,      *)
(* except under SpecTwoCalls, where two calls of splitPDF interleave.      *)
(***************************************************************************)
EXTENDS Integers, Sequences, FiniteSets, TLC

VARIABLES
  pc,    \* position of the call inside its handler
  args,  \* the arguments the handler was called with
  src,   \* the input files as the call finds them
  dir,   \* the output directory: "exists", "absent" or "blocked"
  disk,  \* the files the call has written: a set of [path, content]
  loc,   \* the handler's local variables
  ret,   \* the handler's returned result, NoRet until it returns
  req,   \* the request the server received
  resp,  \* the server's response to it, NoResp until it responds
  calls, \* the handlers the dispatcher has invoked, in order
  tools  \* the catalog array the server advertises

vars == <<pc, args, src, dir, disk, loc, ret, req, resp, calls, tools>>

\* what no step of a handler changes
fixed == <<args, src, req, resp, calls, tools>>

(***************************************************************************)
(* Bounds of the model.                                                    *)
(***************************************************************************)
MaxPages == 2
MaxRanges == 2
MaxInputs == 2

NoRet == [success |-> FALSE, pending |-> TRUE]
Ids == {"1f", "c4"}
DirStates == {"exists", "absent", "blocked"}

Ok(data) == [success |-> TRUE, data |-> data]
ErrKeepsData(msg) == [success |-> FALSE, error |-> msg, data |-> <<>>]
Err(msg) == [success |-> FALSE, error |-> msg]

Returned == pc = "done"

\* the files of the call's output directory, by path
PathsWritten == {f.path : f \in disk}
WriteFile(d, p, c) == {f \in d : f.path # p} \cup {[path |-> p, content |-> c]}
JoinCwd(outputDir, name) == [dir |-> ".", name |-> name]
\* path.join(outputDir, name)
Join(outputDir, name) == [dir |-> outputDir, name |-> name]

(***************************************************************************)
(* The tool catalog: the tools array, in its order, each tool with the     *)
(* name and the required fields of its descriptor.                         *)
(***************************************************************************)
Tool(name, required) == [name |-> name, required |-> required]

Catalog ==
  << Tool("document_reader", {"filePath"}),
     Tool("pdf_merger", {"inputPaths", "outputDir"}),
     Tool("pdf_splitter", {"inputPath", "outputDir", "pageRanges"}),
     Tool("docx_to_pdf", {"inputPath", "outputPath"}),
     Tool("docx_to_html", {"inputPath", "outputDir"}),
     Tool("html_cleaner", {"inputPath", "outputDir"}),
     Tool("html_to_text", {"inputPath", "outputDir"}),
     Tool("html_to_markdown", {"inputPath", "outputDir"}),
     Tool("html_extract_resources", {"inputPath", "outputDir"}),
     Tool("html_formatter", {"inputPath", "outputDir"}),
     Tool("text_diff", {"file1Path", "file2Path", "outputDir"}),
     Tool("text_splitter", {"inputPath", "outputDir", "splitBy", "value"}),
     Tool("text_formatter", {"inputPath", "outputDir"}),
     Tool("text_encoding_converter",
          {"inputPath", "outputDir", "fromEncoding", "toEncoding"}) >>

\* a tools/call request: the name and whether params.arguments is there
\* (the argument bag itself is the variable args)
CallRequest(name, hasArgs) ==
  [method |-> "tools/call", name |-> name, hasArgs |-> hasArgs]
NoResp == [pending |-> TRUE]

\* a handler called with its arguments, as the dispatcher calls it
Direct(name) ==
  /\ req = CallRequest(name, TRUE)
  /\ resp = NoResp
  /\ calls = <<name>>
  /\ tools = Catalog

(***************************************************************************)
(* PDF documents.  A loaded document is its sequence of pages; a page is   *)
(* named by the file it comes from and its 0-based position there.         *)
(***************************************************************************)
Page(file, k) == [file |-> file, index |-> k]
PdfOf(file, n) == [kind |-> "pdf", pages |-> [k \in 1..n |-> Page(file, k - 1)]]
Missing == [kind |-> "missing"]
Corrupt == [kind |-> "corrupt"]
BlankPage == [file |-> "blank", index |-> 0]

PdfFiles(file) == {Missing, Corrupt} \cup {PdfOf(file, n) : n \in 0..MaxPages}

\* PDFDocument.save(): a document without pages is saved with a default page
Save(pages) == IF Len(pages) = 0 THEN <<BlankPage>> ELSE pages

\* a handler without its catch: the failure leaves the handler
FailRethrows(msg) ==
  /\ ret' = ret
  /\ pc' = "catch"

\* the body of the handlers' catch: the failed result
Fail(msg) ==
  /\ ret' = Err(msg)
  /\ pc' = "done"

(***************************************************************************)
(* The output directory guard every handler starts with.                   *)
(***************************************************************************)
\* fs.access and fs.mkdir reject a path that is undefined
PathTypeError ==
  <<"The \"path\" argument must be of type string or an instance of Buffer or URL.",
    " Received undefined">>

\* a parameter the caller's arguments hold no field for
Undefined(field) == field \notin DOMAIN args

EnsureDir(next) ==
  /\ pc = "ensureDir"
  /\ CASE "outputDir" \notin DOMAIN args -> Fail(PathTypeError) /\ UNCHANGED dir
       [] "outputDir" \in DOMAIN args /\ dir = "exists" ->
            pc' = next /\ UNCHANGED <<dir, ret>>
       [] "outputDir" \in DOMAIN args /\ dir = "absent" ->
            pc' = next /\ dir' = "exists" /\ UNCHANGED ret
       [] OTHER -> Fail(<<"EACCES: permission denied, mkdir ", args.outputDir>>)
                   /\ UNCHANGED dir
  /\ UNCHANGED <<fixed, disk, loc>>

(***************************************************************************)
(* splitPDF                                                                *)
(***************************************************************************)
PageNumbers == 0..(MaxPages + 1)
Ranges == [start : PageNumbers, end : PageNumbers]
SeqsUpTo(S, n) == UNION {[1..k -> S] : k \in 0..n}

PageIndexesOffByOne(start, end) == [k \in 1..(end - start + 1) |-> start + (k - 1)]
\* Array.from({length: end - start + 1}, (_, i) => start - 1 + i)
PageIndexes(start, end) == [k \in 1..(end - start + 1) |-> start - 1 + (k - 1)]

\* copyPages(pdf, indexes) throws on an index that is no page of pdf
CanCopy(pages, indexes) == \A k \in 1..Len(indexes) : indexes[k] \in 0..(Len(pages) - 1)
CopyPages(pages, indexes) == [k \in 1..Len(indexes) |-> pages[indexes[k] + 1]]

SplitNameWithoutId(id, i) == <<"split_", ToString(i + 1), ".pdf">>
SplitNameZeroBased(id, i) == <<"split_", id, "_", ToString(i), ".pdf">>
SplitName(id, i) == <<"split_", id, "_", ToString(i + 1), ".pdf">>

\* the calls of splitPDF: its arguments and the input file as it finds it
SplitCall ==
  /\ args \in [inputPath : {"in.pdf"}, outputDir : {"out"},
               pageRanges : SeqsUpTo(Ranges, MaxRanges)]
  /\ src \in PdfFiles("in.pdf")

SplitInit ==
  /\ pc = "ensureDir"
  /\ SplitCall
  /\ dir \in DirStates
  /\ disk = {}
  /\ loc = [i |-> 0]
  /\ ret = NoRet
  /\ Direct("pdf_splitter")

SplitEnsureDir == EnsureDir("read")

SplitRead ==
  /\ pc = "read"
  /\ CASE Undefined("inputPath") -> Fail(PathTypeError) /\ UNCHANGED loc
       [] ~Undefined("inputPath") /\ src.kind = "missing" ->
            Fail(<<"ENOENT: no such file or directory, open ", args.inputPath>>)
            /\ UNCHANGED loc
       [] ~Undefined("inputPath") /\ src.kind = "corrupt" ->
            Fail(<<"Failed to parse PDF document">>) /\ UNCHANGED loc
       [] OTHER ->
            /\ \E id \in Ids :
                 loc' = [pages |-> src.pages, totalPages |-> Len(src.pages),
                         uniqueId |-> id, i |-> 0, results |-> <<>>]
            /\ pc' = "loop"
            /\ UNCHANGED ret
  /\ UNCHANGED <<fixed, dir, disk>>

SplitRange ==
  /\ pc = "loop"
  /\ loc.i < Len(args.pageRanges)
  /\ LET start == args.pageRanges[loc.i + 1].start
         end == args.pageRanges[loc.i + 1].end
         pageIndexes == PageIndexes(start, end)
         outputPath == Join(args.outputDir, SplitName(loc.uniqueId, loc.i))
     IN IF start > loc.totalPages \/ end > loc.totalPages
        THEN Fail(<<"Invalid page range: ", ToString(start), "-", ToString(end),
                    ". PDF only has ", ToString(loc.totalPages), " pages">>)
             /\ UNCHANGED <<disk, loc>>
        ELSE IF start > end
        THEN Fail(<<"Invalid page range: start (", ToString(start),
                    ") is greater than end (", ToString(end), ")">>)
             /\ UNCHANGED <<disk, loc>>
        ELSE IF ~CanCopy(loc.pages, pageIndexes)
        THEN Fail(<<"Cannot read properties of undefined (reading 'node')">>)
             /\ UNCHANGED <<disk, loc>>
        ELSE \/ /\ disk' = WriteFile(disk, outputPath,
                                     Save(CopyPages(loc.pages, pageIndexes)))
                /\ loc' = [loc EXCEPT !.i = loc.i + 1,
                                      !.results = Append(loc.results, outputPath)]
                /\ UNCHANGED <<pc, ret>>
             \/ /\ Fail(<<"EIO: i/o error, write">>)
                /\ UNCHANGED <<disk, loc>>
  /\ UNCHANGED <<fixed, dir>>

SplitReturn ==
  /\ pc = "loop"
  /\ loc.i >= Len(args.pageRanges)
  /\ ret' = Ok(<<"Successfully split PDF into ", ToString(Len(loc.results)),
                 " files: ", loc.results>>)
  /\ pc' = "done"
  /\ UNCHANGED <<fixed, dir, disk, loc>>

SplitNext == SplitEnsureDir \/ SplitRead \/ SplitRange \/ SplitReturn

SpecSplit == SplitInit /\ [][SplitNext]_vars

(* C1: every file splitPDF has written for a range r with                  *)
(* 1 <= r.start <= r.end <= totalPages holds exactly r.end - r.start + 1   *)
(* pages, the source pages with 0-based indices r.start-1 .. r.end-1 in    *)
(* ascending order, and a successful call has written one for every range. *)
ValidRange(r, total) == 1 <= r.start /\ r.start <= r.end /\ r.end <= total
SplitOutput(i) == Join(args.outputDir, SplitName(loc.uniqueId, i - 1))
ExpectedSplit(r) ==
  [k \in 1..(r.end - r.start + 1) |-> Page(args.inputPath, r.start - 1 + (k - 1))]
C1_SplitPages ==
  /\ \A f \in disk : \A i \in 1..Len(args.pageRanges) :
       (f.path = SplitOutput(i) /\ ValidRange(args.pageRanges[i], loc.totalPages))
         => /\ Len(f.content) = args.pageRanges[i].end - args.pageRanges[i].start + 1
            /\ f.content = ExpectedSplit(args.pageRanges[i])
  /\ (Returned /\ ret.success) =>
       \A i \in 1..Len(args.pageRanges) : SplitOutput(i) \in PathsWritten
C1_Witness ==
  /\ Returned /\ ret.success
  /\ \E i, j \in 1..Len(args.pageRanges) :
       /\ args.pageRanges[i].start < args.pageRanges[i].end
       /\ args.pageRanges[j].start = args.pageRanges[j].end

(* C2: whenever some range of pageRanges has start > end or                *)
(* end > totalPages, the returned call has success = false and has written *)
(* no split file.                                                          *)
C2_AllOrNothing ==
  (/\ Returned
   /\ src.kind = "pdf"
   /\ \E i \in 1..Len(args.pageRanges) :
        \/ args.pageRanges[i].start > args.pageRanges[i].end
        \/ args.pageRanges[i].end > Len(src.pages))
    => (~ret.success /\ disk = {})

(***************************************************************************)
(* mergePDFs                                                               *)
(***************************************************************************)
InputNames == {"a.pdf", "b.pdf"}

\* pdf.getPageIndices()
PageIndices(pages) == [k \in 1..Len(pages) |-> k - 1]

AddPagesFirst(merged, copied) == copied \o merged
\* copiedPages.forEach((page) => mergedPdf.addPage(page))
AddPages(merged, copied) == merged \o copied

MergeName(id) == <<"merged_", id, ".pdf">>

\* the calls of mergePDFs: its arguments and the input files as it finds them
MergeCall ==
  /\ args \in [inputPaths : SeqsUpTo(InputNames, MaxInputs), outputDir : {"out"}]
  /\ src \in {f \in [InputNames -> UNION {PdfFiles(n) : n \in InputNames}] :
                \A n \in InputNames : f[n] \in PdfFiles(n)}

MergeInit ==
  /\ pc = "ensureDir"
  /\ MergeCall
  /\ dir \in DirStates
  /\ disk = {}
  /\ loc = [i |-> 0]
  /\ ret = NoRet
  /\ Direct("pdf_merger")

MergeEnsureDir == EnsureDir("create")

MergeCreate ==
  /\ pc = "create"
  /\ \E id \in Ids :
       loc' = [uniqueId |-> id, outputPath |-> Join(args.outputDir, MergeName(id)),
               mergedPdf |-> <<>>, i |-> 0]
  /\ pc' = "loop"
  /\ UNCHANGED <<fixed, dir, disk, ret>>

MergeSourceSkipsUnreadable ==
  /\ pc = "loop"
  /\ loc.i < Len(args.inputPaths)
  /\ LET pdf == src[args.inputPaths[loc.i + 1]]
     IN loc' = [loc EXCEPT !.i = loc.i + 1,
                  !.mergedPdf = IF pdf.kind = "pdf"
                                THEN AddPages(loc.mergedPdf,
                                       CopyPages(pdf.pages, PageIndices(pdf.pages)))
                                ELSE loc.mergedPdf]
  /\ UNCHANGED <<pc, ret, fixed, dir, disk>>

MergeSource ==
  /\ pc = "loop"
  /\ IF Undefined("inputPaths")
     THEN Fail(<<"inputPaths is not iterable">>) /\ UNCHANGED loc
     ELSE /\ loc.i < Len(args.inputPaths)
          /\ LET filePath == args.inputPaths[loc.i + 1]
                 pdf == src[filePath]
             IN CASE pdf.kind = "missing" ->
                       Fail(<<"ENOENT: no such file or directory, open ", filePath>>)
                       /\ UNCHANGED loc
                  [] pdf.kind = "corrupt" ->
                       Fail(<<"Failed to parse PDF document">>) /\ UNCHANGED loc
                  [] OTHER ->
                       /\ loc' = [loc EXCEPT !.i = loc.i + 1,
                                    !.mergedPdf = AddPages(loc.mergedPdf,
                                                    CopyPages(pdf.pages, PageIndices(pdf.pages)))]
                       /\ UNCHANGED <<pc, ret>>
  /\ UNCHANGED <<fixed, dir, disk>>

MergeWrite ==
  /\ pc = "loop"
  /\ ~Undefined("inputPaths")
  /\ loc.i >= Len(args.inputPaths)
  /\ \/ /\ disk' = WriteFile(disk, loc.outputPath, Save(loc.mergedPdf))
        /\ ret' = Ok(<<"Successfully merged ", ToString(Len(args.inputPaths)),
                       " PDFs into ", loc.outputPath>>)
        /\ pc' = "done"
     \/ /\ Fail(<<"EIO: i/o error, write">>)
        /\ UNCHANGED disk
  /\ UNCHANGED <<fixed, dir, loc>>

MergeNext == MergeEnsureDir \/ MergeCreate \/ MergeSource \/ MergeWrite

SpecMerge == MergeInit /\ [][MergeNext]_vars

RECURSIVE Concatenation(_)
\* pages(inputPaths[0]) ++ pages(inputPaths[1]) ++ ...
Concatenation(paths) ==
  IF paths = <<>> THEN <<>>
  ELSE [k \in 1..Len(src[Head(paths)].pages) |-> Page(Head(paths), k - 1)]
         \o Concatenation(Tail(paths))

RECURSIVE PageCountSum(_)
PageCountSum(paths) ==
  IF paths = <<>> THEN 0 ELSE Len(src[Head(paths)].pages) + PageCountSum(Tail(paths))

MergedFiles == {f \in disk : f.path = Join(args.outputDir, MergeName(loc.uniqueId))}

(* C3, as claimed: a successful mergePDFs leaves one output document whose *)
(* page sequence is the concatenation of the sources' pages in the order   *)
(* listed, so its page count is the sum of the sources' page counts.       *)
C3_MergeIsConcatenation ==
  (Returned /\ ret.success) =>
    /\ Cardinality(disk) = 1
    /\ \A f \in disk :
         /\ f.content = Concatenation(args.inputPaths)
         /\ Len(f.content) = PageCountSum(args.inputPaths)

(* C3, amended: a successful mergePDFs leaves one output document, at      *)
(* merged_<id>.pdf; its page sequence is the concatenation of the sources' *)
(* pages in the order listed when that concatenation is not empty, and one *)
(* default blank page when the sources hold no page at all.                *)
C3_MergeIsConcatenationOrBlank ==
  (Returned /\ ret.success) =>
    /\ Cardinality(disk) = 1
    /\ disk = MergedFiles
    /\ \A f \in disk :
         IF PageCountSum(args.inputPaths) = 0
         THEN f.content = <<BlankPage>>
         ELSE /\ f.content = Concatenation(args.inputPaths)
              /\ Len(f.content) = PageCountSum(args.inputPaths)
C3_Witness ==
  /\ Returned /\ ret.success
  /\ Len(args.inputPaths) = 2
  /\ args.inputPaths[1] # args.inputPaths[2]
  /\ Len(src[args.inputPaths[1]].pages) = 2
  /\ Len(src[args.inputPaths[2]].pages) = 1
  /\ \E f \in disk : Len(f.content) = 3

(* C4: when some source of inputPaths cannot be read or loaded, mergePDFs  *)
(* writes no output file at any point and returns success = false, however *)
(* many earlier sources were copied.                                       *)
SomeSourceFails ==
  \E i \in 1..Len(args.inputPaths) : src[args.inputPaths[i]].kind # "pdf"
C4_MergeFailsWhole ==
  SomeSourceFails => (disk = {} /\ (Returned => ~ret.success))
C4_Witness ==
  /\ Returned /\ ~ret.success
  /\ Len(args.inputPaths) = 2
  /\ loc.i = 1
  /\ Len(loc.mergedPdf) > 0
  /\ src[args.inputPaths[2]].kind = "corrupt"

(***************************************************************************)
(* Text.  A string is the sequence of its characters.                      *)
(***************************************************************************)
MaxTextLen == 3
MaxValueLen == 2

NL == "\n"
TextChars == {"a", ",", NL}
ValueChars == {"0", "1", "2", "-", "x", " "}
Strings(chars, n) == SeqsUpTo(chars, n)
TextOf(s) == [kind |-> "text", text |-> s]
TextFiles(texts) == {Missing} \cup {TextOf(s) : s \in texts}

Min(a, b) == IF a <= b THEN a ELSE b

\* array.slice(from, to), 0-based, to exclusive
Slice(a, from, to) == SubSeq(a, from + 1, Min(to, Len(a)))

\* the position of the first occurrence of sep in s at or after p, 0 if none
RECURSIVE IndexOf(_, _, _)
IndexOf(s, sep, p) ==
  IF p + Len(sep) - 1 > Len(s) THEN 0
  ELSE IF SubSeq(s, p, p + Len(sep) - 1) = sep THEN p
  ELSE IndexOf(s, sep, p + 1)

RECURSIVE SplitNonEmpty(_, _)
SplitNonEmpty(s, sep) ==
  LET q == IndexOf(s, sep, 1)
  IN IF q = 0 THEN <<s>>
     ELSE <<SubSeq(s, 1, q - 1)>> \o SplitNonEmpty(SubSeq(s, q + Len(sep), Len(s)), sep)

\* String.prototype.split(sep): an empty separator splits between all characters
SplitStr(s, sep) ==
  IF sep = <<>> THEN [k \in 1..Len(s) |-> <<s[k]>>] ELSE SplitNonEmpty(s, sep)

\* Array.prototype.join(sep)
RECURSIVE JoinStr(_, _)
JoinStr(parts, sep) ==
  IF parts = <<>> THEN <<>>
  ELSE IF Len(parts) = 1 THEN parts[1]
  ELSE parts[1] \o sep \o JoinStr(Tail(parts), sep)

(***************************************************************************)
(* parseInt(value, 10): leading white space is skipped, a sign is read,    *)
(* then the longest run of digits; what follows the digits is ignored and  *)
(* no digit at all is NaN.                                                 *)
(***************************************************************************)
Digits == {"0", "1", "2", "3", "4", "5", "6", "7", "8", "9"}
DigitValue(c) ==
  CASE c = "0" -> 0 [] c = "1" -> 1 [] c = "2" -> 2 [] c = "3" -> 3 [] c = "4" -> 4
    [] c = "5" -> 5 [] c = "6" -> 6 [] c = "7" -> 7 [] c = "8" -> 8 [] OTHER -> 9
WhiteSpace == {" ", "\t", NL}

RECURSIVE TrimStart(_)
TrimStart(s) == IF s # <<>> /\ Head(s) \in WhiteSpace THEN TrimStart(Tail(s)) ELSE s

RECURSIVE DigitsPrefix(_)
DigitsPrefix(s) ==
  IF s # <<>> /\ Head(s) \in Digits THEN <<Head(s)>> \o DigitsPrefix(Tail(s)) ELSE <<>>

RECURSIVE Decimal(_)
Decimal(ds) ==
  IF ds = <<>> THEN 0 ELSE 10 * Decimal(SubSeq(ds, 1, Len(ds) - 1)) + DigitValue(ds[Len(ds)])

NaN == [nan |-> TRUE, val |-> 0]
Number(n) == [nan |-> FALSE, val |-> n]

ParseInt(value) ==
  LET s == TrimStart(value)
      signed == s # <<>> /\ Head(s) \in {"+", "-"}
      ds == DigitsPrefix(IF signed THEN Tail(s) ELSE s)
  IN IF ds = <<>> THEN NaN
     ELSE IF signed /\ Head(s) = "-" THEN Number(-Decimal(ds)) ELSE Number(Decimal(ds))

(***************************************************************************)
(* splitText                                                               *)
(***************************************************************************)
RECURSIVE ChunksDropLine(_, _, _)
ChunksDropLine(lines, i, lineCount) ==
  IF i < Len(lines)
  THEN <<JoinStr(Slice(lines, i, i + lineCount), <<NL>>)>>
         \o ChunksDropLine(lines, i + lineCount + 1, lineCount)
  ELSE <<>>

RECURSIVE ChunksOneMore(_, _, _)
ChunksOneMore(lines, i, lineCount) ==
  IF i < Len(lines)
  THEN <<JoinStr(Slice(lines, i, i + lineCount + 1), <<NL>>)>>
         \o ChunksOneMore(lines, i + lineCount + 1, lineCount)
  ELSE <<>>

\* for (let i = 0; i < lines.length; i += lineCount)
\*   parts.push(lines.slice(i, i + lineCount).join("\n"))
RECURSIVE Chunks(_, _, _)
Chunks(lines, i, lineCount) ==
  IF i < Len(lines)
  THEN <<JoinStr(Slice(lines, i, i + lineCount), <<NL>>)>>
         \o Chunks(lines, i + lineCount, lineCount)
  ELSE <<>>

SplitByLines(content, lineCount) == Chunks(SplitStr(content, <<NL>>), 0, lineCount)

NotEmpty(p) == p # <<>>
SplitDropsEmpty(content, value) == SelectSeq(SplitStr(content, value), NotEmpty)
\* parts.push(...content.split(value))
SplitByDelimiter(content, value) == SplitStr(content, value)

PartNameZeroBased(id, i) == <<"part_", id, "_", ToString(i), ".txt">>
PartName(id, i) == <<"part_", id, "_", ToString(i + 1), ".txt">>

Example == <<"a", ",", "b", ",", ",", "c">>

\* splitBy is declared "lines" | "delimiter"; the dispatcher casts the
\* arguments, so that any string reaches splitText
OtherModes == {"words"}

LinesModeUnlessDelimiter(splitBy) == splitBy # "delimiter"
\* if (splitBy === "lines")
LinesMode(splitBy) == splitBy = "lines"

\* the calls of splitText: its arguments and the input file as it finds it
TextCall ==
  /\ \/ args \in [inputPath : {"in.txt"}, outputDir : {"out"}, splitBy : {"lines"},
                  value : Strings(ValueChars, MaxValueLen)]
     \/ args \in [inputPath : {"in.txt"}, outputDir : {"out"}, splitBy : {"delimiter"},
                  value : Strings(TextChars, MaxValueLen)]
     \/ args \in [inputPath : {"in.txt"}, outputDir : {"out"}, splitBy : OtherModes,
                  value : {<<",">>, <<"0">>, <<"2">>}]
  /\ src \in TextFiles(Strings(TextChars, MaxTextLen) \cup {Example})

TextInit ==
  /\ pc = "ensureDir"
  /\ TextCall
  /\ dir \in DirStates
  /\ disk = {}
  /\ loc = [i |-> 0]
  /\ ret = NoRet
  /\ Direct("text_splitter")

TextEnsureDir == EnsureDir("read")

TextRead ==
  /\ pc = "read"
  /\ IF Undefined("inputPath")
     THEN Fail(PathTypeError) /\ UNCHANGED loc
     ELSE IF src.kind = "missing"
     THEN Fail(<<"ENOENT: no such file or directory, open ", args.inputPath>>)
          /\ UNCHANGED loc
     ELSE \E id \in Ids :
       LET content == src.text
           lineCount == ParseInt(args.value)
       IN IF LinesMode(args.splitBy)
          THEN IF lineCount.nan \/ lineCount.val <= 0
               THEN Fail(<<"Invalid line count">>) /\ UNCHANGED loc
               ELSE /\ loc' = [uniqueId |-> id, i |-> 0, results |-> <<>>,
                               parts |-> SplitByLines(content, lineCount.val)]
                    /\ pc' = "write"
                    /\ UNCHANGED ret
          ELSE /\ loc' = [uniqueId |-> id, i |-> 0, results |-> <<>>,
                          parts |-> SplitByDelimiter(content, args.value)]
               /\ pc' = "write"
               /\ UNCHANGED ret
  /\ UNCHANGED <<fixed, dir, disk>>

TextWritePart ==
  /\ pc = "write"
  /\ loc.i < Len(loc.parts)
  /\ LET outputPath == Join(args.outputDir, PartName(loc.uniqueId, loc.i))
     IN \/ /\ disk' = WriteFile(disk, outputPath, loc.parts[loc.i + 1])
           /\ loc' = [loc EXCEPT !.i = loc.i + 1,
                                 !.results = Append(loc.results, outputPath)]
           /\ UNCHANGED <<pc, ret>>
        \/ /\ Fail(<<"EIO: i/o error, write">>)
           /\ UNCHANGED <<disk, loc>>
  /\ UNCHANGED <<fixed, dir>>

TextReturnPastEnd ==
  /\ pc = "write"
  /\ loc.i > Len(loc.parts)
  /\ ret' = Ok(<<"Successfully split text into ", ToString(Len(loc.parts)),
                 " parts: ", loc.results>>)
  /\ pc' = "done"
  /\ UNCHANGED <<fixed, dir, disk, loc>>

TextReturn ==
  /\ pc = "write"
  /\ loc.i >= Len(loc.parts)
  /\ ret' = Ok(<<"Successfully split text into ", ToString(Len(loc.parts)),
                 " parts: ", loc.results>>)
  /\ pc' = "done"
  /\ UNCHANGED <<fixed, dir, disk, loc>>

TextNext == TextEnsureDir \/ TextRead \/ TextWritePart \/ TextReturn

SpecText == TextInit /\ [][TextNext]_vars

\* the fragments a call has in memory, and the fragment files it has written
HasParts == pc = "write" \/ (Returned /\ ret.success)
FragmentFile(k) ==
  CHOOSE f \in disk : f.path = Join(args.outputDir, PartName(loc.uniqueId, k - 1))
Fragments == [k \in 1..Len(loc.parts) |-> FragmentFile(k).content]
AllWritten ==
  \A k \in 1..Len(loc.parts) :
    Join(args.outputDir, PartName(loc.uniqueId, k - 1)) \in PathsWritten

RECURSIVE LinesOf(_)
LinesOf(parts) ==
  IF parts = <<>> THEN <<>> ELSE SplitStr(Head(parts), <<NL>>) \o LinesOf(Tail(parts))

(* C5: in lines mode, joining the chunks text_splitter produced, in order  *)
(* and with the line separator, gives back the input, and the lines of the *)
(* chunks in order are the lines of the input: none lost, duplicated or    *)
(* reordered.                                                              *)
C5_LinesRoundTrip ==
  (HasParts /\ args.splitBy = "lines") =>
    /\ JoinStr(loc.parts, <<NL>>) = src.text
    /\ LinesOf(loc.parts) = SplitStr(src.text, <<NL>>)
    /\ (Returned =>
          /\ AllWritten
          /\ JoinStr(Fragments, <<NL>>) = src.text
          /\ LinesOf(Fragments) = SplitStr(src.text, <<NL>>))
C5_Witness ==
  /\ Returned /\ ret.success /\ args.splitBy = "lines"
  /\ Len(loc.parts) = 3
  /\ Cardinality(disk) = 3
  /\ \E k \in 1..Len(src.text) : src.text[k] = "a"

(* C6: in lines mode with N >= 1 an input of L lines gives ceil(L/N)       *)
(* chunks; every chunk but the last holds exactly N lines, the last holds  *)
(* between 1 and N, and chunk k is the lines (k-1)N+1 .. min(kN, L) of the *)
(* input, so no boundary falls inside a line.                              *)
C6_ChunkSizes ==
  (HasParts /\ args.splitBy = "lines") =>
    LET lines == SplitStr(src.text, <<NL>>)
        L == Len(lines)
        N == ParseInt(args.value).val
        n == Len(loc.parts)
    IN /\ N >= 1
       /\ n = (L + N - 1) \div N
       /\ \A k \in 1..n :
            /\ SplitStr(loc.parts[k], <<NL>>) = SubSeq(lines, (k - 1) * N + 1, Min(k * N, L))
            /\ k < n => Len(SplitStr(loc.parts[k], <<NL>>)) = N
            /\ k = n => Len(SplitStr(loc.parts[k], <<NL>>)) \in 1..N
C6_Witness ==
  /\ Returned /\ ret.success /\ args.splitBy = "lines"
  /\ ParseInt(args.value).val = 2
  /\ Len(SplitStr(src.text, <<NL>>)) = 3
  /\ Len(loc.parts) = 2
  /\ Len(SplitStr(loc.parts[2], <<NL>>)) = 1

(* C7: in lines mode a value that is not a number, or is a number <= 0,    *)
(* makes the call return success = false with no fragment file written.    *)
RECURSIVE TrimEnd(_)
TrimEnd(s) ==
  IF s # <<>> /\ s[Len(s)] \in WhiteSpace THEN TrimEnd(SubSeq(s, 1, Len(s) - 1)) ELSE s
Unsigned(s) == IF s # <<>> /\ Head(s) \in {"+", "-"} THEN Tail(s) ELSE s
IsNumeric(value) ==
  LET body == Unsigned(TrimEnd(TrimStart(value)))
  IN body # <<>> /\ \A k \in 1..Len(body) : body[k] \in Digits
NumericValue(value) ==
  LET t == TrimEnd(TrimStart(value))
  IN IF t # <<>> /\ Head(t) = "-" THEN -Decimal(Unsigned(t)) ELSE Decimal(Unsigned(t))
C7_InvalidLineCountFails ==
  (/\ Returned
   /\ args.splitBy = "lines"
   /\ (~IsNumeric(args.value) \/ NumericValue(args.value) <= 0))
    => (~ret.success /\ disk = {})

(* C8, as claimed: in delimiter mode, for every input and every delimiter, *)
(* an input holding k non-overlapping occurrences of the delimiter gives   *)
(* exactly k+1 fragments in original order, empty fragments included.      *)
Max(a, b) == IF a >= b THEN a ELSE b
RECURSIVE Occurrences(_, _, _)
Occurrences(s, d, p) ==
  IF p + Len(d) - 1 > Len(s) THEN 0
  ELSE IF \A k \in 1..Len(d) : s[p + k - 1] = d[k]
       THEN 1 + Occurrences(s, d, p + Max(1, Len(d)))
       ELSE Occurrences(s, d, p + 1)
C8_DelimiterFragments ==
  (HasParts /\ args.splitBy = "delimiter") =>
    /\ Len(loc.parts) = Occurrences(src.text, args.value, 1) + 1
    /\ JoinStr(loc.parts, args.value) = src.text

(* C8, amended: in delimiter mode, for every input and every non-empty     *)
(* delimiter, an input holding k non-overlapping occurrences of the        *)
(* delimiter gives exactly k+1 fragments in original order, empty          *)
(* fragments included ("a,b,,c" with "," gives "a", "b", "", "c"); an      *)
(* empty delimiter gives one fragment per character of the input.          *)
C8_NonEmptyDelimiterFragments ==
  (HasParts /\ args.splitBy = "delimiter") =>
    /\ args.value # <<>> =>
         /\ Len(loc.parts) = Occurrences(src.text, args.value, 1) + 1
         /\ JoinStr(loc.parts, args.value) = src.text
         /\ \A k \in 1..Len(loc.parts) :
              Len(args.value) = 1 => Occurrences(loc.parts[k], args.value, 1) = 0
    /\ args.value = <<>> =>
         /\ Len(loc.parts) = Len(src.text)
         /\ \A k \in 1..Len(loc.parts) : loc.parts[k] = <<src.text[k]>>
    /\ (src.text = Example /\ args.value = <<",">>) =>
         loc.parts = << <<"a">>, <<"b">>, <<>>, <<"c">> >>
    /\ Returned => (AllWritten /\ Fragments = loc.parts)
C8_Witness ==
  /\ Returned /\ ret.success /\ args.splitBy = "delimiter"
  /\ src.text = Example /\ args.value = <<",">>
  /\ Cardinality(disk) = 4
  /\ FragmentFile(3).content = <<>>

(***************************************************************************)
(* diffLines(text1, text2) of the diff package: the texts are cut into     *)
(* line tokens (a line with its newline), compared by Myers' algorithm,    *)
(* and the edit script is returned as runs {count, value, added, removed}. *)
(***************************************************************************)
MaxDiffLen == 3

RECURSIVE Concat(_)
\* tokens.join("")
Concat(tokens) == IF tokens = <<>> THEN <<>> ELSE Head(tokens) \o Concat(Tail(tokens))

\* lineDiff.tokenize: value.split(/(\n|\r\n)/), each newline kept on its line,
\* a final empty piece dropped
RECURSIVE Tokenize(_)
Tokenize(value) ==
  LET q == IndexOf(value, <<NL>>, 1)
  IN IF value = <<>> THEN <<>>
     ELSE IF q = 0 THEN <<value>>
     ELSE <<SubSeq(value, 1, q)>> \o Tokenize(SubSeq(value, q + 1, Len(value)))

Common(n) == [count |-> n, added |-> FALSE, removed |-> FALSE]
NoPath == [none |-> TRUE, newPos |-> 0, components |-> <<>>]
Path(newPos, components) == [none |-> FALSE, newPos |-> newPos, components |-> components]

\* pushComponent: a run of the same kind is lengthened, another kind starts a run
PushComponent(components, added, removed) ==
  LET n == Len(components)
  IN IF n > 0 /\ components[n].added = added /\ components[n].removed = removed
     THEN [components EXCEPT ![n].count = components[n].count + 1]
     ELSE Append(components, [count |-> 1, added |-> added, removed |-> removed])

\* the number of equal tokens that follow positions newPos and oldPos (0-based)
RECURSIVE CommonCount(_, _, _, _)
CommonCount(newString, oldString, newPos, oldPos) ==
  IF /\ newPos + 1 < Len(newString)
     /\ oldPos + 1 < Len(oldString)
     /\ newString[newPos + 2] = oldString[oldPos + 2]
  THEN 1 + CommonCount(newString, oldString, newPos + 1, oldPos + 1)
  ELSE 0

\* extractCommon: follow the diagonal while the tokens are equal
ExtractCommon(basePath, newString, oldString, diagonalPath) ==
  LET commonCount ==
        CommonCount(newString, oldString, basePath.newPos, basePath.newPos - diagonalPath)
  IN Path(basePath.newPos + commonCount,
          IF commonCount > 0 THEN Append(basePath.components, Common(commonCount))
          ELSE basePath.components)

AtEnd(path, newString, oldString, diagonalPath) ==
  /\ path.newPos + 1 >= Len(newString)
  /\ (path.newPos - diagonalPath) + 1 >= Len(oldString)

\* execEditLength: one pass over the diagonals -editLength, -editLength + 2, ...
RECURSIVE ExecEditLength(_, _, _, _, _)
ExecEditLength(bestPath, diagonalPath, editLength, newString, oldString) ==
  IF diagonalPath > editLength THEN [done |-> FALSE, bestPath |-> bestPath]
  ELSE
    LET addPath == bestPath[diagonalPath - 1]
        removePath == bestPath[diagonalPath + 1]
        oldPos == (IF removePath.none THEN 0 ELSE removePath.newPos) - diagonalPath
        cleared == [bestPath EXCEPT ![diagonalPath - 1] = NoPath]
        canAdd == ~addPath.none /\ addPath.newPos + 1 < Len(newString)
        canRemove == ~removePath.none /\ 0 <= oldPos /\ oldPos < Len(oldString)
        basePath ==
          IF ~canAdd \/ (canRemove /\ addPath.newPos < removePath.newPos)
          THEN Path(removePath.newPos, PushComponent(removePath.components, FALSE, TRUE))
          ELSE Path(addPath.newPos + 1, PushComponent(addPath.components, TRUE, FALSE))
        extended == ExtractCommon(basePath, newString, oldString, diagonalPath)
    IN IF ~canAdd /\ ~canRemove
       THEN ExecEditLength([cleared EXCEPT ![diagonalPath] = NoPath],
                           diagonalPath + 2, editLength, newString, oldString)
       ELSE IF AtEnd(extended, newString, oldString, diagonalPath)
       THEN [done |-> TRUE, components |-> extended.components]
       ELSE ExecEditLength([cleared EXCEPT ![diagonalPath] = extended],
                           diagonalPath + 2, editLength, newString, oldString)

RECURSIVE EditLoop(_, _, _, _)
EditLoop(bestPath, editLength, newString, oldString) ==
  LET pass == ExecEditLength(bestPath, -editLength, editLength, newString, oldString)
  IN IF pass.done THEN pass.components
     ELSE EditLoop(pass.bestPath, editLength + 1, newString, oldString)

\* buildValues: every run gets its text; a removed run that follows an added run
\* is moved in front of it
RECURSIVE BuildValues(_, _, _, _, _, _)
BuildValues(components, componentPos, newPos, oldPos, newString, oldString) ==
  IF componentPos > Len(components) THEN components
  ELSE
    LET component == components[componentPos]
        count == component.count
    IN IF ~component.removed
       THEN BuildValues(
              [components EXCEPT ![componentPos] =
                 [count |-> count, added |-> component.added, removed |-> FALSE,
                  value |-> Concat(SubSeq(newString, newPos + 1, newPos + count))]],
              componentPos + 1, newPos + count,
              IF component.added THEN oldPos ELSE oldPos + count, newString, oldString)
       ELSE
         LET valued == [count |-> count, added |-> FALSE, removed |-> TRUE,
                        value |-> Concat(SubSeq(oldString, oldPos + 1, oldPos + count))]
             swapped ==
               IF componentPos > 1 /\ components[componentPos - 1].added
               THEN [components EXCEPT ![componentPos - 1] = valued,
                                       ![componentPos] = components[componentPos - 1]]
               ELSE [components EXCEPT ![componentPos] = valued]
         IN BuildValues(swapped, componentPos + 1, newPos, oldPos + count,
                        newString, oldString)

DiffLinesSwapped(text1, text2) ==
  LET oldString == Tokenize(text2)
      newString == Tokenize(text1)
      maxEditLength == Len(newString) + Len(oldString)
      seed == ExtractCommon(Path(-1, <<>>), newString, oldString, 0)
      bestPath == [d \in (-maxEditLength - 1)..(maxEditLength + 1) |->
                     IF d = 0 THEN seed ELSE NoPath]
  IN IF AtEnd(seed, newString, oldString, 0)
     THEN <<[count |-> Len(newString), added |-> FALSE, removed |-> FALSE,
             value |-> Concat(newString)]>>
     ELSE BuildValues(EditLoop(bestPath, 1, newString, oldString),
                      1, 0, 0, newString, oldString)

DiffLines(text1, text2) ==
  LET oldString == Tokenize(text1)
      newString == Tokenize(text2)
      maxEditLength == Len(newString) + Len(oldString)
      seed == ExtractCommon(Path(-1, <<>>), newString, oldString, 0)
      bestPath == [d \in (-maxEditLength - 1)..(maxEditLength + 1) |->
                     IF d = 0 THEN seed ELSE NoPath]
  IN IF AtEnd(seed, newString, oldString, 0)
     THEN <<[count |-> Len(newString), added |-> FALSE, removed |-> FALSE,
             value |-> Concat(newString)]>>
     ELSE BuildValues(EditLoop(bestPath, 1, newString, oldString),
                      1, 0, 0, newString, oldString)

(***************************************************************************)
(* compareTexts                                                            *)
(***************************************************************************)
Prefix(part) ==
  IF part.added THEN <<"+", " ">> ELSE IF part.removed THEN <<"-", " ">> ELSE <<" ", " ">>

\* diff.map((part) => prefix + part.value).join("")
DiffResult(diff) == Concat([k \in 1..Len(diff) |-> Prefix(diff[k]) \o diff[k].value])

DiffName(id) == <<"diff_", id, ".txt">>

DiffChars == {"a", NL}
DiffTexts == Strings(DiffChars, MaxDiffLen) \cup {<<"a", NL, "b">>, <<"a", NL, "c">>}

\* the calls of compareTexts: its arguments and the input files as it finds them
DiffCall ==
  /\ args = [file1Path |-> "1.txt", file2Path |-> "2.txt", outputDir |-> "out"]
  /\ src \in [file1 : TextFiles(DiffTexts), file2 : TextFiles(DiffTexts)]

DiffInit ==
  /\ pc = "ensureDir"
  /\ DiffCall
  /\ dir \in DirStates
  /\ disk = {}
  /\ loc = [i |-> 0]
  /\ ret = NoRet
  /\ Direct("text_diff")

DiffEnsureDir == EnsureDir("read1")

DiffRead1 ==
  /\ pc = "read1"
  /\ IF Undefined("file1Path")
     THEN Fail(PathTypeError) /\ UNCHANGED loc
     ELSE IF src.file1.kind = "missing"
     THEN Fail(<<"ENOENT: no such file or directory, open ", args.file1Path>>)
          /\ UNCHANGED loc
     ELSE /\ \E id \in Ids : loc' = [uniqueId |-> id, text1 |-> src.file1.text]
          /\ pc' = "read2"
          /\ UNCHANGED ret
  /\ UNCHANGED <<fixed, dir, disk>>

DiffRead2 ==
  /\ pc = "read2"
  /\ IF src.file2.kind = "missing"
     THEN Fail(<<"ENOENT: no such file or directory, open ", args.file2Path>>)
          /\ UNCHANGED loc
     ELSE /\ LET text2 == src.file2.text
                 diff == DiffLines(loc.text1, text2)
             IN loc' = [uniqueId |-> loc.uniqueId, text1 |-> loc.text1, text2 |-> text2,
                        diff |-> diff, diffResult |-> DiffResult(diff),
                        outputPath |-> Join(args.outputDir, DiffName(loc.uniqueId))]
          /\ pc' = "write"
          /\ UNCHANGED ret
  /\ UNCHANGED <<fixed, dir, disk>>

DiffWrite ==
  /\ pc = "write"
  /\ \/ /\ disk' = WriteFile(disk, loc.outputPath, loc.diffResult)
        /\ ret' = Ok(<<"Successfully compared texts: ", loc.outputPath>>)
        /\ pc' = "done"
     \/ /\ Fail(<<"EIO: i/o error, write">>)
        /\ UNCHANGED disk
  /\ UNCHANGED <<fixed, dir, loc>>

DiffNext == DiffEnsureDir \/ DiffRead1 \/ DiffRead2 \/ DiffWrite

SpecDiff == DiffInit /\ [][DiffNext]_vars

\* the lines of a report: its text cut at the newlines, a final empty piece dropped
StripNewline(line) ==
  IF line # <<>> /\ line[Len(line)] = NL THEN SubSeq(line, 1, Len(line) - 1) ELSE line
ReportLines(report) ==
  LET tokens == Tokenize(report) IN [k \in 1..Len(tokens) |-> StripNewline(tokens[k])]
StartsWith(line, prefix) ==
  Len(line) >= Len(prefix) /\ SubSeq(line, 1, Len(prefix)) = prefix
Report == (CHOOSE f \in disk : f.path = loc.outputPath).content
Compared == Returned /\ ret.success

(* C9: the report text_diff writes for two identical inputs has the        *)
(* two-space prefix on every line and "+ " or "- " on none, whatever the   *)
(* number of lines of the inputs.                                          *)
C9_IdenticalAllUnchanged ==
  (Compared /\ loc.text1 = loc.text2) =>
    \A k \in 1..Len(ReportLines(Report)) :
      /\ StartsWith(ReportLines(Report)[k], <<" ", " ">>)
      /\ ~StartsWith(ReportLines(Report)[k], <<"+", " ">>)
      /\ ~StartsWith(ReportLines(Report)[k], <<"-", " ">>)

(* C10: the report of "a\nb" against "a\nc" has one unchanged line (a),    *)
(* one removed line (b) and one added line (c), each on its own prefixed   *)
(* line: the runs appear in order, each starting a line of the report with *)
(* its prefix "  ", "- " or "+ ".                                          *)
C10_RunsOnOwnLines ==
  (Compared /\ loc.text1 = <<"a", NL, "b">> /\ loc.text2 = <<"a", NL, "c">>) =>
    ReportLines(Report) = << <<" ", " ", "a">>, <<"-", " ", "b">>, <<"+", " ", "c">> >>

(***************************************************************************)
(* The single-file converters: docxToHtml, cleanHtml, htmlToText,          *)
(* htmlToMarkdown, extractHtmlResources, formatHtml, formatText and        *)
(* convertTextEncoding.  Each ensures the output directory, generates an   *)
(* identifier, reads the input, converts it and writes one file.           *)
(***************************************************************************)
SingleFileTools ==
  {"docx_to_html", "html_cleaner", "html_to_text", "html_to_markdown",
   "html_extract_resources", "html_formatter", "text_formatter",
   "text_encoding_converter"}

FileOf(content) == [kind |-> "file", content |-> content]
Converted(name, content) == [by |-> name, of |-> content]

Encodings == {"utf8", "big5", "utf-9"}
\* iconv.encodingExists
EncodingExists(enc) == enc \in {"utf8", "big5"}

OutputName(name, id) ==
  CASE name = "docx_to_html" -> <<"converted_", id, ".html">>
    [] name = "html_cleaner" -> <<"cleaned_", id, ".html">>
    [] name = "html_to_text" -> <<"text_", id, ".txt">>
    [] name = "html_to_markdown" -> <<"markdown_", id, ".md">>
    [] name = "html_extract_resources" -> <<"resources_", id, ".json">>
    [] name = "html_formatter" -> <<"formatted_", id, ".html">>
    [] name = "text_formatter" -> <<"formatted_", id, ".txt">>
    [] name = "text_encoding_converter" -> <<"converted_", id, ".txt">>

SuccessText(name) ==
  CASE name = "docx_to_html" -> "Successfully converted DOCX to HTML: "
    [] name = "html_cleaner" -> "Successfully cleaned HTML and saved to "
    [] name = "html_to_text" -> "Successfully converted HTML to text: "
    [] name = "html_to_markdown" -> "Successfully converted HTML to Markdown: "
    [] name = "html_extract_resources" -> "Successfully extracted resources: "
    [] name = "html_formatter" -> "Successfully formatted HTML: "
    [] name = "text_formatter" -> "Successfully formatted text: "
    [] name = "text_encoding_converter" -> "Successfully converted text encoding: "

\* what the converting library throws on this input, <<>> if it converts it:
\* mammoth on a file that is no DOCX archive, iconv on an unknown encoding
ConvertError(name) ==
  CASE name = "docx_to_html" /\ src.kind = "corrupt" ->
         <<"Can't find end of central directory : is this a zip file ?">>
    [] name = "text_encoding_converter" /\ ~EncodingExists(args.fromEncoding) ->
         <<"Encoding not recognized: '", args.fromEncoding, "'">>
    [] name = "text_encoding_converter" /\ EncodingExists(args.fromEncoding)
         /\ ~EncodingExists(args.toEncoding) ->
         <<"Encoding not recognized: '", args.toEncoding, "'">>
    [] OTHER -> <<>>

FileArgs(name) ==
  IF name = "text_encoding_converter"
  THEN [inputPath : {"in.txt"}, outputDir : {"out"},
        fromEncoding : Encodings, toEncoding : Encodings]
  ELSE [inputPath : {"in.file"}, outputDir : {"out"}]

FileSources(name) ==
  IF name = "docx_to_html" THEN {Missing, Corrupt, FileOf("docx")}
  ELSE {Missing, FileOf("text")}

\* the calls of a single-file converter
FileCall(name) ==
  /\ args \in FileArgs(name)
  /\ src \in FileSources(name)

FileInit ==
  /\ pc = "ensureDir"
  /\ \E name \in SingleFileTools : Direct(name) /\ FileCall(name)
  /\ dir \in DirStates
  /\ disk = {}
  /\ loc = [i |-> 0]
  /\ ret = NoRet

FileEnsureDir == EnsureDir("fileRead")

FileRead ==
  /\ pc = "fileRead"
  /\ \E id \in Ids :
       IF Undefined("inputPath")
       THEN Fail(PathTypeError) /\ UNCHANGED loc
       ELSE IF src.kind = "missing"
       THEN Fail(<<"ENOENT: no such file or directory, open ", args.inputPath>>)
            /\ UNCHANGED loc
       ELSE IF ConvertError(req.name) # <<>>
       THEN Fail(ConvertError(req.name)) /\ UNCHANGED loc
       ELSE /\ loc' = [uniqueId |-> id, i |-> 0,
                       output |-> Converted(req.name, src.content)]
            /\ pc' = "fileWrite"
            /\ UNCHANGED ret
  /\ UNCHANGED <<fixed, dir, disk>>

FileWrite ==
  /\ pc = "fileWrite"
  /\ LET outputPath == Join(args.outputDir, OutputName(req.name, loc.uniqueId))
     IN \/ /\ disk' = WriteFile(disk, outputPath, loc.output)
           /\ ret' = Ok(<<SuccessText(req.name), outputPath>>)
           /\ pc' = "done"
        \/ /\ Fail(<<"EIO: i/o error, write">>)
           /\ UNCHANGED disk
  /\ UNCHANGED <<fixed, dir, loc>>

FileNext == FileEnsureDir \/ FileRead \/ FileWrite

SpecFile == FileInit /\ [][FileNext]_vars

(***************************************************************************)
(* File paths whose extension the code inspects are sequences of           *)
(* characters.                                                             *)
(***************************************************************************)
Upper == <<"A", "B", "C", "D", "E", "F", "G", "H", "I", "J", "K", "L", "M",
           "N", "O", "P", "Q", "R", "S", "T", "U", "V", "W", "X", "Y", "Z">>
Lower == <<"a", "b", "c", "d", "e", "f", "g", "h", "i", "j", "k", "l", "m",
           "n", "o", "p", "q", "r", "s", "t", "u", "v", "w", "x", "y", "z">>

\* String.prototype.toLowerCase
ToLowerCase(s) ==
  [k \in 1..Len(s) |->
     IF \E n \in 1..Len(Upper) : Upper[n] = s[k]
     THEN Lower[CHOOSE n \in 1..Len(Upper) : Upper[n] = s[k]]
     ELSE s[k]]

\* path.extname of a path without directories: from the last "." on, empty
\* when there is none or the name starts with its only "."
ExtName(path) ==
  LET dots == {k \in 1..Len(path) : path[k] = "."}
      last == CHOOSE k \in dots : \A j \in dots : j <= k
  IN IF dots = {} \/ last = 1 THEN <<>> ELSE SubSeq(path, last, Len(path))

(***************************************************************************)
(* readFile of document_reader                                             *)
(***************************************************************************)
SupportedFormats ==
  { <<".", "p", "d", "f">>, <<".", "d", "o", "c", "x">>, <<".", "t", "x", "t">>,
    <<".", "h", "t", "m", "l">>, <<".", "c", "s", "v">> }
\* the formats a parser reads, which rejects a file it cannot parse
ParsedFormats == { <<".", "p", "d", "f">>, <<".", "d", "o", "c", "x">> }

ReaderPaths ==
  { <<"a", ".", "t", "x", "t">>, <<"a", ".", "T", "x", "t">>,
    <<"a", ".", "p", "d", "f">>, <<"a", ".", "m", "d">>, <<"a", ".", "M", "D">>,
    <<"a">>, <<".", "t", "x", "t">> }

\* the calls of readFile
ReaderCall ==
  /\ args \in [filePath : ReaderPaths]
  /\ src \in {Missing, Corrupt, FileOf("text")}

ReaderInit ==
  /\ pc = "readFile"
  /\ ReaderCall
  /\ dir = "exists"
  /\ disk = {}
  /\ loc = [i |-> 0]
  /\ ret = NoRet
  /\ Direct("document_reader")

ReadFile ==
  /\ pc = "readFile"
  /\ LET ext == ToLowerCase(ExtName(args.filePath))
     IN IF ext \notin SupportedFormats
        THEN Fail(<<"Unsupported file format: ">> \o ext)
        ELSE IF src.kind = "missing"
        THEN Fail(<<"ENOENT: no such file or directory, open ">> \o args.filePath)
        ELSE IF src.kind = "corrupt" /\ ext \in ParsedFormats
        THEN Fail(<<"Failed to parse the document">>)
        ELSE /\ ret' = Ok([text |-> ext, of |-> src])
             /\ pc' = "done"
  /\ UNCHANGED <<fixed, dir, disk, loc>>

SpecReader == ReaderInit /\ [][ReadFile]_vars

(***************************************************************************)
(* convertDocxToPdf of docx_to_pdf                                         *)
(***************************************************************************)
DocxPaths == { <<"a", ".", "d", "o", "c", "x">>, <<"a", ".", "D", "O", "C", "X">>,
               <<"a", ".", "d", "o", "c">>, <<"a">> }
PdfPaths == { <<"o", ".", "p", "d", "f">>, <<"o", ".", "P", "d", "f">>,
              <<"o", ".", "t", "x", "t">>, <<"o">> }

\* the calls of convertDocxToPdf
DocxCall ==
  /\ args \in [inputPath : DocxPaths, outputPath : PdfPaths]
  /\ src \in {Missing, Corrupt, FileOf("docx")}

DocxInit ==
  /\ pc = "convert"
  /\ DocxCall
  /\ dir = "exists"
  /\ disk = {}
  /\ loc = [i |-> 0]
  /\ ret = NoRet
  /\ Direct("docx_to_pdf")

DocxConvertReadsFirst ==
  /\ pc = "convert"
  /\ IF src.kind = "missing"
     THEN Fail(<<"ENOENT: no such file or directory, open ">> \o args.inputPath)
          /\ UNCHANGED loc
     ELSE IF ToLowerCase(ExtName(args.inputPath)) # <<".", "d", "o", "c", "x">>
     THEN Fail(<<"Input file must be a .docx file">>) /\ UNCHANGED loc
     ELSE IF ToLowerCase(ExtName(args.outputPath)) # <<".", "p", "d", "f">>
     THEN Fail(<<"Output file must have .pdf extension">>) /\ UNCHANGED loc
     ELSE IF src.kind = "corrupt"
     THEN Fail(<<"Could not convert the document">>) /\ UNCHANGED loc
     ELSE /\ loc' = [i |-> 0, pdfBuffer |-> Converted("docx_to_pdf", src.content)]
          /\ pc' = "pdfWrite"
          /\ UNCHANGED ret
  /\ UNCHANGED <<fixed, dir, disk>>

DocxConvert ==
  /\ pc = "convert"
  /\ IF ToLowerCase(ExtName(args.inputPath)) # <<".", "d", "o", "c", "x">>
     THEN Fail(<<"Input file must be a .docx file">>) /\ UNCHANGED loc
     ELSE IF ToLowerCase(ExtName(args.outputPath)) # <<".", "p", "d", "f">>
     THEN Fail(<<"Output file must have .pdf extension">>) /\ UNCHANGED loc
     ELSE IF src.kind = "missing"
     THEN Fail(<<"ENOENT: no such file or directory, open ">> \o args.inputPath)
          /\ UNCHANGED loc
     ELSE IF src.kind = "corrupt"
     THEN Fail(<<"Could not convert the document">>) /\ UNCHANGED loc
     ELSE /\ loc' = [i |-> 0, pdfBuffer |-> Converted("docx_to_pdf", src.content)]
          /\ pc' = "pdfWrite"
          /\ UNCHANGED ret
  /\ UNCHANGED <<fixed, dir, disk>>

DocxWrite ==
  /\ pc = "pdfWrite"
  /\ \/ /\ disk' = WriteFile(disk, args.outputPath, loc.pdfBuffer)
        /\ ret' = Ok(<<"Successfully converted ">> \o args.inputPath
                     \o <<" to ">> \o args.outputPath)
        /\ pc' = "done"
     \/ /\ Fail(<<"EIO: i/o error, write">>)
        /\ UNCHANGED disk
  /\ UNCHANGED <<fixed, dir, loc>>

DocxNext == DocxConvert \/ DocxWrite

SpecDocx == DocxInit /\ [][DocxNext]_vars

(***************************************************************************)
(* The dispatcher: the handler of tools/call requests, and the handler of  *)
(* tools/list requests.                                                    *)
(***************************************************************************)
ListRequest == [method |-> "tools/list", name |-> "", hasArgs |-> FALSE]
\* params.arguments when the request has none, and the bag {}
NoArgs == <<>>
EmptyBag == <<>>

ToolNames == {tools[k].name : k \in 1..Len(tools)}
UnknownNames == {"excel_read", "pdf_to_images"}

\* the branches of the dispatcher in their order: the name each compares
\* with, whether it checks the shape of the arguments, where its handler starts
Branch(name, checked, entry) == [name |-> name, checked |-> checked, entry |-> entry]

BranchesWithoutSplitter ==
  << Branch("document_reader", TRUE, "readFile"),
     Branch("docx_to_pdf", TRUE, "convert"),
     Branch("pdf_merger", FALSE, "ensureDir"),
     Branch("docx_to_html", FALSE, "ensureDir"),
     Branch("html_cleaner", FALSE, "ensureDir"),
     Branch("html_to_text", FALSE, "ensureDir"),
     Branch("html_to_markdown", FALSE, "ensureDir"),
     Branch("html_extract_resources", FALSE, "ensureDir"),
     Branch("html_formatter", FALSE, "ensureDir"),
     Branch("text_encoding_converter", FALSE, "ensureDir"),
     Branch("text_formatter", FALSE, "ensureDir"),
     Branch("text_diff", FALSE, "ensureDir"),
     Branch("text_splitter", FALSE, "ensureDir") >>

Branches ==
  << Branch("document_reader", TRUE, "readFile"),
     Branch("docx_to_pdf", TRUE, "convert"),
     Branch("pdf_merger", FALSE, "ensureDir"),
     Branch("pdf_splitter", FALSE, "ensureDir"),
     Branch("docx_to_html", FALSE, "ensureDir"),
     Branch("html_cleaner", FALSE, "ensureDir"),
     Branch("html_to_text", FALSE, "ensureDir"),
     Branch("html_to_markdown", FALSE, "ensureDir"),
     Branch("html_extract_resources", FALSE, "ensureDir"),
     Branch("html_formatter", FALSE, "ensureDir"),
     Branch("text_encoding_converter", FALSE, "ensureDir"),
     Branch("text_formatter", FALSE, "ensureDir"),
     Branch("text_diff", FALSE, "ensureDir"),
     Branch("text_splitter", FALSE, "ensureDir") >>

BranchesOf(name) == {k \in 1..Len(Branches) : Branches[k].name = name}

\* the fields of a bag, when there, hold values of their declared types
IsFileReaderArgs(bag) == "filePath" \in DOMAIN bag
IsDocxToPdfArgs(bag) == "inputPath" \in DOMAIN bag /\ "outputPath" \in DOMAIN bag

ShapeOk(name, bag) ==
  CASE name = "document_reader" -> IsFileReaderArgs(bag)
    [] name = "docx_to_pdf" -> IsDocxToPdfArgs(bag)

FileOperationResponse(data) ==
  <<"Note: This operation has generated a file. The file path is in <result> ",
    "Please provide a blank_link download for the file. <result>">>
  \o data \o <<"</result>">>

ErrorResponse(msg) == [isError |-> TRUE, text |-> <<"Error: ">> \o msg]

\* the calls of a tool with well-formed arguments
ToolCall(name) ==
  CASE name = "document_reader" -> ReaderCall
    [] name = "docx_to_pdf" -> DocxCall
    [] name = "pdf_merger" -> MergeCall
    [] name = "pdf_splitter" -> SplitCall
    [] name = "text_diff" -> DiffCall
    [] name = "text_splitter" -> TextCall
    [] OTHER -> FileCall(name)

\* the dispatcher hands the arguments on as they are: calls with short
\* arguments and short files take a request through every step of a handler
ShortCall(name) ==
  CASE name = "pdf_splitter" -> Len(args.pageRanges) <= 1
    [] name = "text_splitter" ->
         Len(args.value) <= 1 /\ (src.kind = "text" => Len(src.text) <= 2)
    [] name = "text_diff" ->
         \A f \in {src.file1, src.file2} : f.kind = "text" => Len(f.text) <= 2
    [] OTHER -> TRUE

DispatchInit ==
  /\ pc = "dispatch"
  /\ tools = Catalog
  /\ \/ req = ListRequest /\ args = NoArgs /\ src = Missing
     \/ \E name \in ToolNames \cup UnknownNames :
          /\ req = CallRequest(name, FALSE)
          /\ args = NoArgs
          /\ src = Missing
     \/ \E name \in ToolNames \cup UnknownNames :
          /\ req = CallRequest(name, TRUE)
          /\ args \in {EmptyBag, [inputPath |-> <<"a", ".", "d", "o", "c", "x">>],
                       [outputDir |-> "out"]}
          /\ src = Missing
     \/ \E name \in ToolNames :
          req = CallRequest(name, TRUE) /\ ToolCall(name) /\ ShortCall(name)
  /\ dir \in DirStates
  /\ disk = {}
  /\ loc = [i |-> 0]
  /\ ret = NoRet
  /\ resp = NoResp
  /\ calls = <<>>

ListTools ==
  /\ pc = "dispatch"
  /\ req.method = "tools/list"
  /\ resp' = [tools |-> tools]
  /\ pc' = "responded"
  /\ UNCHANGED <<args, src, dir, disk, loc, ret, req, calls, tools>>

\* throw inside the dispatcher's try
Throw(msg) ==
  /\ pc' = "catch"
  /\ loc' = [i |-> 0, error |-> msg]
  /\ UNCHANGED <<resp, calls>>

DispatchLooksUpFirst ==
  /\ pc = "dispatch"
  /\ req.method = "tools/call"
  /\ LET first == CHOOSE k \in BranchesOf(req.name) :
                    \A j \in BranchesOf(req.name) : k <= j
     IN IF BranchesOf(req.name) = {}
        THEN /\ resp' = [isError |-> TRUE, text |-> <<"Unknown tool: ", req.name>>]
             /\ pc' = "responded"
             /\ UNCHANGED <<loc, calls>>
        ELSE IF ~req.hasArgs
        THEN Throw(<<"No arguments provided">>)
        ELSE IF Branches[first].checked /\ ~ShapeOk(req.name, args)
        THEN Throw(<<"Invalid arguments for ", req.name>>)
        ELSE /\ pc' = Branches[first].entry
             /\ calls' = Append(calls, req.name)
             /\ UNCHANGED <<loc, resp>>
  /\ UNCHANGED <<args, src, dir, disk, ret, req, tools>>

Dispatch ==
  /\ pc = "dispatch"
  /\ req.method = "tools/call"
  /\ LET first == CHOOSE k \in BranchesOf(req.name) :
                    \A j \in BranchesOf(req.name) : k <= j
     IN IF ~req.hasArgs
        THEN Throw(<<"No arguments provided">>)
        ELSE IF BranchesOf(req.name) = {}
        THEN /\ resp' = [isError |-> TRUE, text |-> <<"Unknown tool: ", req.name>>]
             /\ pc' = "responded"
             /\ UNCHANGED <<loc, calls>>
        ELSE IF Branches[first].checked /\ ~ShapeOk(req.name, args)
        THEN Throw(<<"Invalid arguments for ", req.name>>)
        ELSE /\ pc' = Branches[first].entry
             /\ calls' = Append(calls, req.name)
             /\ UNCHANGED <<loc, resp>>
  /\ UNCHANGED <<args, src, dir, disk, ret, req, tools>>

DispatchCatch ==
  /\ pc = "catch"
  /\ resp' = ErrorResponse(loc.error)
  /\ pc' = "responded"
  /\ UNCHANGED <<args, src, dir, disk, loc, ret, req, calls, tools>>

RespondRetries ==
  /\ pc = "done"
  /\ IF ~ret.success /\ Len(calls) < 2
     THEN /\ pc' = Branches[CHOOSE k \in BranchesOf(req.name) : TRUE].entry
          /\ calls' = Append(calls, req.name)
          /\ ret' = NoRet
          /\ UNCHANGED <<resp, loc>>
     ELSE /\ resp' = IF ~ret.success THEN ErrorResponse(ret.error)
                     ELSE [isError |-> FALSE,
                           text |-> IF req.name = "document_reader" THEN <<ret.data>>
                                    ELSE FileOperationResponse(ret.data)]
          /\ pc' = "responded"
          /\ UNCHANGED <<loc, ret, calls>>
  /\ UNCHANGED <<args, src, dir, disk, req, tools>>

\* a branch after its handler has returned
Respond ==
  /\ pc = "done"
  /\ resp' = IF ~ret.success THEN ErrorResponse(ret.error)
             ELSE [isError |-> FALSE,
                   text |-> IF req.name = "document_reader" THEN <<ret.data>>
                            ELSE FileOperationResponse(ret.data)]
  /\ pc' = "responded"
  /\ UNCHANGED <<args, src, dir, disk, loc, ret, req, calls, tools>>

DispatchNext ==
  \/ ListTools
  \/ Dispatch
  \/ DispatchCatch
  \/ Respond
  \/ req.name = "document_reader" /\ ReadFile
  \/ req.name = "docx_to_pdf" /\ DocxNext
  \/ req.name = "pdf_merger" /\ MergeNext
  \/ req.name = "pdf_splitter" /\ SplitNext
  \/ req.name = "text_diff" /\ DiffNext
  \/ req.name = "text_splitter" /\ TextNext
  \/ req.name \in SingleFileTools /\ FileNext

SpecDispatch == DispatchInit /\ [][DispatchNext]_vars

Responded == pc = "responded"

IsCall == req.method = "tools/call"
UnknownTool(name) == [isError |-> TRUE, text |-> <<"Unknown tool: ", name>>]

(* C11: every tools/call request whose name is no name of the catalog is   *)
(* answered, whether its arguments are there, empty or absent, with        *)
(* isError true and the text "Unknown tool: <name>".                       *)
C11_UnknownToolNamed ==
  (Responded /\ IsCall /\ req.name \notin ToolNames) => resp = UnknownTool(req.name)

(* C12: for each of the 14 tools of the catalog, a call whose arguments    *)
(* lack a required field is answered with the failure "Invalid arguments   *)
(* for <name>", and the handler of the tool is never invoked.              *)
Required(name) == (CHOOSE k \in 1..Len(tools) : tools[k].name = name)
Malformed ==
  /\ IsCall
  /\ req.hasArgs
  /\ req.name \in ToolNames
  /\ ~(tools[Required(req.name)].required \subseteq DOMAIN args)
InvalidArguments(name) == ErrorResponse(<<"Invalid arguments for ", name>>)
C12_MalformedRejected ==
  Malformed => /\ calls = <<>>
               /\ Responded => resp = InvalidArguments(req.name)

(* C13: the dispatcher's catch is reached only when the arguments are      *)
(* absent or a shape check has failed, never after a handler was invoked;  *)
(* an invoked handler ends by returning a result, a failed one for every   *)
(* internal failure, and the response is made from that result.            *)
ShapeCheckFails ==
  /\ req.name \in {"document_reader", "docx_to_pdf"}
  /\ ~ShapeOk(req.name, args)
C13_NoExceptionCrosses ==
  /\ pc = "catch" => calls = <<>> /\ (~req.hasArgs \/ ShapeCheckFails)
  /\ (Responded /\ calls # <<>>) =>
       /\ ret # NoRet
       /\ ~ret.success => resp = ErrorResponse(ret.error)
  /\ Responded => resp # NoResp
C13_Witness ==
  /\ Responded
  /\ calls = <<"html_cleaner">>
  /\ "inputPath" \in DOMAIN args
  /\ ~ret.success
  /\ resp = ErrorResponse(<<"ENOENT: no such file or directory, open ", args.inputPath>>)

(* C14: every result a handler has returned has exactly one of data and    *)
(* error: data and no error when success is true, error and no data when   *)
(* success is false.                                                       *)
C14_Envelope ==
  ret # NoRet => IF ret.success THEN DOMAIN ret = {"success", "data"}
                 ELSE DOMAIN ret = {"success", "error"}
C14_Witness == Returned /\ req.name = "docx_to_pdf" /\ ~ret.success /\ calls # <<>>

(* C18: the catalog is at every moment the tools array as defined; when a  *)
(* request arrives its names are pairwise distinct, every name of it is    *)
(* compared with by exactly one branch of the dispatcher and every branch  *)
(* compares with a name of it; and a call with arguments is answered       *)
(* "Unknown tool" exactly when its name is no name of the catalog.         *)
C18_CatalogMatchesDispatcher ==
  /\ tools = Catalog
  /\ pc = "dispatch" =>
       /\ \A i, j \in 1..Len(tools) : tools[i].name = tools[j].name => i = j
       /\ \A name \in ToolNames : Cardinality(BranchesOf(name)) = 1
       /\ \A k \in 1..Len(Branches) : Branches[k].name \in ToolNames
  /\ (Responded /\ IsCall /\ req.hasArgs) =>
       (resp = UnknownTool(req.name) <=> req.name \notin ToolNames)
C18_Witness ==
  /\ Responded
  /\ req.name = "pdf_splitter"
  /\ calls = <<"pdf_splitter">>
  /\ ~resp.isError

(* C20: the error message of every validation failure holds the invalid    *)
(* value: the start and end of an invalid page range of pdf_splitter, the  *)
(* line count of text_splitter that is no positive number, the extension   *)
(* (in lower case) document_reader does not support, the extensions        *)
(* docx_to_pdf rejects.                                                    *)
Mentions(msg, value) ==
  \E k \in 0..(Len(msg) - Len(value)) :
    \A j \in 1..Len(value) : msg[k + j] = value[j]
Validated == Returned /\ IsCall /\ calls # <<>> /\ "error" \in DOMAIN ret
C20_ValidationNamesValue ==
  /\ ( /\ Validated
       /\ req.name = "pdf_splitter"
       /\ Head(ret.error) \in {"Invalid page range: ", "Invalid page range: start ("} ) =>
       /\ Mentions(ret.error, <<ToString(args.pageRanges[loc.i + 1].start)>>)
       /\ Mentions(ret.error, <<ToString(args.pageRanges[loc.i + 1].end)>>)
  /\ ( /\ Validated
       /\ req.name = "text_splitter"
       /\ "value" \in DOMAIN args
       /\ dir = "exists"
       /\ src.kind = "text"
       /\ args.splitBy = "lines"
       /\ (ParseInt(args.value).nan \/ ParseInt(args.value).val <= 0) ) =>
       Mentions(ret.error, args.value)
  /\ ( /\ Validated
       /\ req.name = "document_reader"
       /\ ToLowerCase(ExtName(args.filePath)) \notin SupportedFormats ) =>
       Mentions(ret.error, ToLowerCase(ExtName(args.filePath)))
  /\ ( /\ Validated
       /\ req.name = "docx_to_pdf"
       /\ ToLowerCase(ExtName(args.inputPath)) # <<".", "d", "o", "c", "x">> ) =>
       Mentions(ret.error, ExtName(args.inputPath))
  /\ ( /\ Validated
       /\ req.name = "docx_to_pdf"
       /\ ToLowerCase(ExtName(args.inputPath)) = <<".", "d", "o", "c", "x">>
       /\ ToLowerCase(ExtName(args.outputPath)) # <<".", "p", "d", "f">> ) =>
       Mentions(ret.error, ExtName(args.outputPath))

RangeErrors == {"Invalid page range: ", "Invalid page range: start ("}
CopyError == "Cannot read properties of undefined (reading 'node')"
HasRead == "totalPages" \in DOMAIN loc
AllValid == \A k \in 1..Len(args.pageRanges) :
              ValidRange(args.pageRanges[k], loc.totalPages)

(* C16: a successful splitPDF call on n ranges has written exactly n       *)
(* distinct files, the i-th named split_<id>_<i>.pdf whatever pages the    *)
(* range names, and its result lists them in the order of the ranges; a    *)
(* call all of whose ranges are valid, overlapping and out of order        *)
(* included, is never failed for a range.                                  *)
C16_OneFilePerRangeInOrder ==
  /\ (Returned /\ ret.success) =>
       LET n == Len(args.pageRanges)
           expected == [i \in 1..n |->
                          Join(args.outputDir,
                               <<"split_", loc.uniqueId, "_", ToString(i), ".pdf">>)]
       IN /\ loc.results = expected
          /\ PathsWritten = {expected[i] : i \in 1..n}
          /\ Cardinality(disk) = n
          /\ ret.data = <<"Successfully split PDF into ", ToString(n),
                          " files: ", expected>>
  /\ (Returned /\ HasRead /\ AllValid /\ ~ret.success) =>
       Head(ret.error) \notin RangeErrors \cup {CopyError}
C16_Witness ==
  /\ Returned
  /\ ret.success
  /\ args.pageRanges = <<[start |-> 2, end |-> 2], [start |-> 1, end |-> 2]>>
  /\ Cardinality(disk) = 2

(* C17: splitPDF never gets past a range that violates                     *)
(* 1 <= start <= end <= totalPages, a range with start < 1 included: the   *)
(* call fails at that range with the message of the range check.           *)
C17_ExplicitRangeCheck ==
  HasRead =>
    \A k \in 1..Len(args.pageRanges) :
      ~ValidRange(args.pageRanges[k], loc.totalPages) =>
        /\ loc.i < k
        /\ (Returned /\ loc.i = k - 1) =>
             ~ret.success /\ Head(ret.error) \in RangeErrors

(***************************************************************************)
(* Two calls of splitPDF in flight with the same output directory.  The    *)
(* server starts a handler for every request it reads, so the code of the  *)
(* two calls interleaves at their awaits.  pc, args, loc and ret hold one  *)
(* value per call; the file system (src, dir, disk) is the one both use.   *)
(***************************************************************************)
TwoCalls == {1, 2}
FewRanges == {[start |-> 1, end |-> 1], [start |-> 2, end |-> 1]}

\* fs.mkdir(path) fails on a directory that is there
MkdirPlain(d) ==
  CASE d = "blocked" -> [ok |-> FALSE, code |-> "EACCES: permission denied, mkdir ", dir |-> d]
    [] d = "exists" -> [ok |-> FALSE, code |-> "EEXIST: file already exists, mkdir ", dir |-> d]
    [] OTHER -> [ok |-> TRUE, code |-> "", dir |-> "exists"]
\* fs.mkdir(path, {recursive: true}) on the directory in state d
Mkdir(d) ==
  CASE d = "blocked" -> [ok |-> FALSE, code |-> "EACCES: permission denied, mkdir ", dir |-> d]
    [] OTHER -> [ok |-> TRUE, code |-> "", dir |-> "exists"]

TwoInit ==
  /\ pc = [c \in TwoCalls |-> "access"]
  /\ args \in [TwoCalls -> [inputPath : {"in.pdf"}, outputDir : {"out"},
                            pageRanges : SeqsUpTo(FewRanges, MaxRanges)]]
  /\ src \in PdfFiles("in.pdf")
  /\ dir \in DirStates
  /\ disk = {}
  /\ loc = [c \in TwoCalls |-> [i |-> 0, made |-> FALSE]]
  /\ ret = [c \in TwoCalls |-> NoRet]
  /\ req = CallRequest("pdf_splitter", TRUE)
  /\ resp = NoResp
  /\ calls = <<"pdf_splitter", "pdf_splitter">>
  /\ tools = Catalog

\* the body of the catch of call c
TwoFail(c, msg) ==
  /\ ret' = [ret EXCEPT ![c] = Err(msg)]
  /\ pc' = [pc EXCEPT ![c] = "done"]

\* await fs.access(outputDir)
TwoAccess(c) ==
  /\ pc[c] = "access"
  /\ pc' = [pc EXCEPT ![c] = IF dir = "exists" THEN "read" ELSE "mkdir"]
  /\ UNCHANGED <<args, src, dir, disk, loc, ret, req, resp, calls, tools>>

\* await fs.mkdir(outputDir, {recursive: true}), in the catch of the access
TwoMkdir(c) ==
  /\ pc[c] = "mkdir"
  /\ LET made == Mkdir(dir)
     IN IF made.ok
        THEN /\ dir' = made.dir
             /\ pc' = [pc EXCEPT ![c] = "read"]
             /\ loc' = [loc EXCEPT ![c].made = TRUE]
             /\ UNCHANGED ret
        ELSE /\ TwoFail(c, <<made.code, args[c].outputDir>>)
             /\ UNCHANGED <<dir, loc>>
  /\ UNCHANGED <<args, src, disk, req, resp, calls, tools>>

TwoRead(c) ==
  /\ pc[c] = "read"
  /\ CASE src.kind = "missing" ->
            TwoFail(c, <<"ENOENT: no such file or directory, open ", args[c].inputPath>>)
            /\ UNCHANGED loc
       [] src.kind = "corrupt" ->
            TwoFail(c, <<"Failed to parse PDF document">>) /\ UNCHANGED loc
       [] OTHER ->
            /\ \E id \in Ids :
                 loc' = [loc EXCEPT ![c] =
                           [pages |-> src.pages, totalPages |-> Len(src.pages),
                            uniqueId |-> id, i |-> 0, results |-> <<>>,
                            made |-> loc[c].made]]
            /\ pc' = [pc EXCEPT ![c] = "loop"]
            /\ UNCHANGED ret
  /\ UNCHANGED <<args, src, dir, disk, req, resp, calls, tools>>

TwoRange(c) ==
  /\ pc[c] = "loop"
  /\ loc[c].i < Len(args[c].pageRanges)
  /\ LET start == args[c].pageRanges[loc[c].i + 1].start
         end == args[c].pageRanges[loc[c].i + 1].end
         pageIndexes == PageIndexes(start, end)
         outputPath == Join(args[c].outputDir, SplitName(loc[c].uniqueId, loc[c].i))
     IN IF start > loc[c].totalPages \/ end > loc[c].totalPages
        THEN TwoFail(c, <<"Invalid page range: ", ToString(start), "-", ToString(end),
                          ". PDF only has ", ToString(loc[c].totalPages), " pages">>)
             /\ UNCHANGED <<disk, loc>>
        ELSE IF start > end
        THEN TwoFail(c, <<"Invalid page range: start (", ToString(start),
                          ") is greater than end (", ToString(end), ")">>)
             /\ UNCHANGED <<disk, loc>>
        ELSE IF ~CanCopy(loc[c].pages, pageIndexes)
        THEN TwoFail(c, <<"Cannot read properties of undefined (reading 'node')">>)
             /\ UNCHANGED <<disk, loc>>
        ELSE \/ /\ disk' = WriteFile(disk, outputPath,
                                     Save(CopyPages(loc[c].pages, pageIndexes)))
                /\ loc' = [loc EXCEPT ![c].i = loc[c].i + 1,
                                      ![c].results = Append(loc[c].results, outputPath)]
                /\ UNCHANGED <<pc, ret>>
             \/ /\ TwoFail(c, <<"EIO: i/o error, write">>)
                /\ UNCHANGED <<disk, loc>>
  /\ UNCHANGED <<args, src, dir, req, resp, calls, tools>>

TwoReturn(c) ==
  /\ pc[c] = "loop"
  /\ loc[c].i >= Len(args[c].pageRanges)
  /\ ret' = [ret EXCEPT ![c] =
               Ok(<<"Successfully split PDF into ", ToString(Len(loc[c].results)),
                    " files: ", loc[c].results>>)]
  /\ pc' = [pc EXCEPT ![c] = "done"]
  /\ UNCHANGED <<args, src, dir, disk, loc, req, resp, calls, tools>>

TwoNext ==
  \E c \in TwoCalls :
    TwoAccess(c) \/ TwoMkdir(c) \/ TwoRead(c) \/ TwoRange(c) \/ TwoReturn(c)

SpecTwoCalls == TwoInit /\ [][TwoNext]_vars

WrittenBy(c) ==
  IF "results" \in DOMAIN loc[c]
  THEN {loc[c].results[k] : k \in 1..Len(loc[c].results)}
  ELSE {}
BothGenerated == \A c \in TwoCalls : "uniqueId" \in DOMAIN loc[c]

(* C15: two interleaved calls of splitPDF with the same output directory   *)
(* never write the same file path.                                         *)
C15_NoSharedPath == WrittenBy(1) \cap WrittenBy(2) = {}

(* C15, amended: every path a call writes holds the identifier the call    *)
(* generated, and two interleaved calls with the same output directory     *)
(* whose identifiers differ never write the same file path.                *)
C15_NoSharedPathUnlessSameId ==
  /\ \A c \in TwoCalls : \A p \in WrittenBy(c) : p.name[2] = loc[c].uniqueId
  /\ (BothGenerated /\ loc[1].uniqueId # loc[2].uniqueId) =>
       WrittenBy(1) \cap WrittenBy(2) = {}
C15_Witness ==
  /\ \A c \in TwoCalls : pc[c] = "done" /\ ret[c].success /\ WrittenBy(c) # {}
  /\ loc[1].uniqueId # loc[2].uniqueId
  /\ Cardinality(disk) = Cardinality(WrittenBy(1)) + Cardinality(WrittenBy(2))

(* C19: a call's directory step leaves a directory that is there as it is; *)
(* it ends the call only when the directory cannot be made, with a failed  *)
(* result that holds the file system's error, so two calls that both find  *)
(* the directory absent and both make it both go on.                       *)
InDirStep(c) == pc[c] \in {"access", "mkdir"}
C19_EnsureDirIdempotent ==
  [][ /\ dir = "exists" => dir' = "exists"
      /\ \A c \in TwoCalls :
           (InDirStep(c) /\ pc'[c] = "done") =>
             /\ dir = "blocked"
             /\ ret'[c] = Err(<<"EACCES: permission denied, mkdir ", args[c].outputDir>>)
      /\ \A c \in TwoCalls :
           (InDirStep(c) /\ dir = "exists") => pc'[c] \in {pc[c], "read"} ]_vars
C19_Witness ==
  /\ \A c \in TwoCalls : loc[c].made /\ pc[c] = "read"
  /\ dir = "exists"

(* ---------------------------------------------------------------------- *)
(* Calls that fail at the dispatch layer.                                  *)
(* ---------------------------------------------------------------------- *)

DispatchFailure ==
  /\ IsCall
  /\ \/ req.name \notin ToolNames
     \/ ~req.hasArgs
     \/ Malformed

(* C21: a call that fails at the dispatch layer (unknown name, no          *)
(* argument bag, a required argument missing) has no effect on the file    *)
(* system: no step of it creates the directory or writes a file.           *)
C21_DispatchFailureTouchesNothing ==
  [][DispatchFailure => (dir' = dir /\ disk' = disk)]_vars

(* ---------------------------------------------------------------------- *)
(* docx_to_pdf: the one file it writes.                                    *)
(* ---------------------------------------------------------------------- *)

DocxExt == ToLowerCase(ExtName(args.inputPath)) = <<".", "d", "o", "c", "x">>
PdfExt == ToLowerCase(ExtName(args.outputPath)) = <<".", "p", "d", "f">>

(* C22: docx_to_pdf writes one file, at the outputPath of the caller, and  *)
(* only when both extensions (compared in lower case) are right; with a    *)
(* wrong extension the call fails with the extension's message, whatever   *)
(* the input file is, has read no input and has written nothing.           *)
C22_OneFileAtOutputPath ==
  /\ \A f \in disk : f.path = args.outputPath
  /\ Cardinality(disk) <= 1
  /\ disk # {} => (DocxExt /\ PdfExt)
  /\ (Returned /\ ret.success) =>
        disk = {[path |-> args.outputPath,
                 content |-> Converted("docx_to_pdf", src.content)]}
  /\ ~(DocxExt /\ PdfExt) =>
        /\ pc \in {"convert", "done"}
        /\ "pdfBuffer" \notin DOMAIN loc
        /\ disk = {}
        /\ Returned =>
              ret = Err(IF ~DocxExt THEN <<"Input file must be a .docx file">>
                        ELSE <<"Output file must have .pdf extension">>)

C22_Witness ==
  /\ Returned /\ ret.success
  /\ args.inputPath = <<"a", ".", "D", "O", "C", "X">>
  /\ args.outputPath = <<"o", ".", "P", "d", "f">>
  /\ Cardinality(disk) = 1

(* ---------------------------------------------------------------------- *)
(* text_splitter: the files of the fragments and the success message.      *)
(* ---------------------------------------------------------------------- *)

PartPath(i) ==
  [dir |-> args.outputDir, name |-> <<"part_", loc.uniqueId, "_", ToString(i), ".txt">>]

(* C23: a successful text_splitter call has written one file for each of   *)
(* its n fragments, part_<id>_<i>.txt holding the i-th fragment for i in    *)
(* 1..n, and its message reports n and the n paths in fragment order.       *)
C23_OneFilePerFragment ==
  (Returned /\ ret.success) =>
    LET n == Len(loc.parts)
    IN /\ disk = {[path |-> PartPath(i), content |-> loc.parts[i]] : i \in 1..n}
       /\ Cardinality(disk) = n
       /\ ret.data = <<"Successfully split text into ", ToString(n), " parts: ",
                       [i \in 1..n |-> PartPath(i)]>>

C23_Witness ==
  /\ Returned /\ ret.success
  /\ Len(loc.parts) = 3
  /\ loc.parts[1] # loc.parts[2]
  /\ Cardinality(disk) = 3

(* ---------------------------------------------------------------------- *)
(* The response made of a handler's result.                                *)
(* ---------------------------------------------------------------------- *)

HandlerReturned == IsCall /\ calls # <<>> /\ pc \in {"done", "responded"}

(* C24: the response of a call whose handler has returned is made of the   *)
(* handler's result: isError true and "Error: <error>" for success false,   *)
(* isError false and a text holding the data for success true; a call has   *)
(* no response before it is answered and one after, and its handler is      *)
(* invoked at most once.                                                    *)
C24_OneResponsePerResult ==
  /\ Len(calls) <= 1
  /\ (resp = NoResp) <=> ~Responded
  /\ HandlerReturned => ~("pending" \in DOMAIN ret)
  /\ (HandlerReturned /\ Responded) =>
        IF ~ret.success
        THEN resp = [isError |-> TRUE, text |-> <<"Error: ">> \o ret.error]
        ELSE /\ resp.isError = FALSE
             /\ IF req.name = "document_reader"
                THEN resp.text = <<ret.data>>
                ELSE \E k \in 1..Len(resp.text) :
                       SubSeq(resp.text, k, k + Len(ret.data) - 1) = ret.data

C24_Witness ==
  /\ Responded
  /\ calls = <<"pdf_splitter">>
  /\ ~ret.success
  /\ resp = ErrorResponse(<<"Failed to parse PDF document">>)

(* ---------------------------------------------------------------------- *)
(* The paths a call writes.  The input paths of these calls are paths of   *)
(* the same form as the paths the handlers write, directory and file name, *)
(* so that an input may be a file an earlier call has generated: a caller  *)
(* can hand the output of one call to the next.                            *)
(* ---------------------------------------------------------------------- *)

\* the name the handler of a tool gives its first output file
GeneratedName(name, id) ==
  CASE name = "pdf_merger" -> MergeName(id)
    [] name = "pdf_splitter" -> SplitName(id, 0)
    [] name = "text_diff" -> DiffName(id)
    [] name = "text_splitter" -> PartName(id, 0)
    [] OTHER -> OutputName(name, id)

\* input paths: a file of another directory, or a generated file of "out"
InputPathsOf(name) ==
  {Join("in", <<"in.file">>)} \cup {Join("out", GeneratedName(name, id)) : id \in Ids}

\* the input paths a call declares
DeclaredInputs ==
  CASE req.name = "document_reader" -> {args.filePath}
    [] req.name = "pdf_merger" -> {args.inputPaths[k] : k \in 1..Len(args.inputPaths)}
    [] req.name = "text_diff" -> {args.file1Path, args.file2Path}
    [] OTHER -> {args.inputPath}

OutputDirTools == ToolNames \ {"document_reader", "docx_to_pdf"}

PathsCall(name) ==
  CASE name = "document_reader" -> ReaderCall
    [] name = "docx_to_pdf" -> DocxCall
    [] name = "pdf_merger" ->
         \E p \in InputPathsOf(name) :
           /\ args = [inputPaths |-> <<p>>, outputDir |-> "out"]
           /\ src \in [{p} -> {Missing, PdfOf("a.pdf", 1)}]
    [] name = "pdf_splitter" ->
         /\ args \in [inputPath : InputPathsOf(name), outputDir : {"out"},
                       pageRanges : {<<[start |-> 1, end |-> 1]>>}]
         /\ src \in {Missing, PdfOf("in.pdf", 1)}
    [] name = "text_diff" ->
         /\ args \in [file1Path : InputPathsOf(name), file2Path : InputPathsOf(name),
                       outputDir : {"out"}]
         /\ src \in [file1 : TextFiles({<<"a">>}), file2 : TextFiles({<<"a">>})]
    [] name = "text_splitter" ->
         /\ args \in [inputPath : InputPathsOf(name), outputDir : {"out"},
                       splitBy : {"delimiter"}, value : {<<",">>}]
         /\ src \in TextFiles({<<"a", ",", "b">>})
    [] name = "text_encoding_converter" ->
         /\ args \in [inputPath : InputPathsOf(name), outputDir : {"out"},
                       fromEncoding : {"big5"}, toEncoding : {"utf8"}]
         /\ src \in FileSources(name)
    [] OTHER ->
         /\ args \in [inputPath : InputPathsOf(name), outputDir : {"out"}]
         /\ src \in FileSources(name)

\* a file of outputDir is there only if the directory is
PathsInit ==
  /\ dir \in DirStates
  /\ \E b \in 1..Len(Branches) :
       /\ Direct(Branches[b].name)
       /\ PathsCall(Branches[b].name)
       /\ pc = Branches[b].entry
       /\ (dir = "absent" /\ Branches[b].name \in OutputDirTools) =>
            \A p \in DeclaredInputs : p.dir # args.outputDir
  /\ disk = {}
  /\ loc = [i |-> 0]
  /\ ret = NoRet

HandlerNext ==
  \/ req.name = "document_reader" /\ ReadFile
  \/ req.name = "docx_to_pdf" /\ DocxNext
  \/ req.name = "pdf_merger" /\ MergeNext
  \/ req.name = "pdf_splitter" /\ SplitNext
  \/ req.name = "text_diff" /\ DiffNext
  \/ req.name = "text_splitter" /\ TextNext
  \/ req.name \in SingleFileTools /\ FileNext

SpecPaths == PathsInit /\ [][HandlerNext]_vars

\* the files a call writes lie in its outputDir, under the prefix of the tool
\* and the identifier of the call; document_reader writes none
DerivedFromArguments ==
  /\ req.name = "document_reader" => disk = {}
  /\ req.name = "docx_to_pdf" => \A f \in disk : f.path = args.outputPath
  /\ req.name \in OutputDirTools =>
       \A f \in disk :
         /\ f.path.dir = args.outputDir
         /\ f.path.name[1] = GeneratedName(req.name, loc.uniqueId)[1]
         /\ f.path.name[2] = loc.uniqueId

(* C25: every file a call writes lies at a path derived from the call's    *)
(* arguments (outputDir, the prefix of the tool, the identifier of the     *)
(* call), document_reader writes no file, and no file is written at a      *)
(* declared input path of the call.                                        *)
C25_OwnPathsOnly ==
  /\ DerivedFromArguments
  /\ \A f \in disk : f.path \notin DeclaredInputs

(* C25 as it holds: the same, but a declared input path is written only    *)
(* when it is itself a file of outputDir whose name is the tool's prefix   *)
(* and the identifier this call has drawn.                                 *)
C25_OwnPathsUnlessGenerated ==
  /\ DerivedFromArguments
  /\ \A f \in disk :
       f.path \in DeclaredInputs =>
         /\ req.name \in OutputDirTools
         /\ f.path \in {Join(args.outputDir, GeneratedName(req.name, loc.uniqueId))}

C25_Witness ==
  /\ req.name = "text_splitter"
  /\ Returned /\ ret.success
  /\ args.inputPath.dir = args.outputDir
  /\ args.inputPath.name[2] # loc.uniqueId
  /\ Cardinality(disk) = 2

(* ---------------------------------------------------------------------- *)
(* Termination.  A handler's step is an await on the file system or on a   *)
(* library; the runtime resumes the handler when the awaited step returns, *)
(* so a handler that can take a step takes it in the end: weak fairness    *)
(* of the handlers' steps.                                                 *)
(* ---------------------------------------------------------------------- *)

HandlerInit ==
  \/ ReaderInit
  \/ DocxInit
  \/ MergeInit
  \/ SplitInit
  \/ DiffInit
  \/ TextInit
  \/ FileInit

\* calls whose loops run their full length: files as long as the bounds
\* allow, well-formed ranges, line counts and delimiters of one character;
\* diffLines is one synchronous step of its handler, taken here on two
\* files of the same text
LongCall ==
  CASE req.name = "pdf_splitter" ->
         /\ src.kind = "pdf" => Len(src.pages) = MaxPages
         /\ \A k \in 1..Len(args.pageRanges) :
              /\ args.pageRanges[k].start >= 1
              /\ args.pageRanges[k].start <= args.pageRanges[k].end
    [] req.name = "pdf_merger" ->
         \A n \in InputNames : src[n].kind = "pdf" => Len(src[n].pages) = MaxPages
    [] req.name = "text_splitter" ->
         /\ src.kind = "text" => Len(src.text) >= MaxTextLen
         /\ args.value \in {<<"0">>, <<"1">>, <<"2">>, <<",">>}
    [] req.name = "text_diff" ->
         (src.file1.kind = "text" /\ src.file2.kind = "text") => src.file1 = src.file2
    [] OTHER -> TRUE

FairInit == HandlerInit /\ LongCall

SpecHandlersFair == FairInit /\ [][HandlerNext]_vars /\ WF_vars(HandlerNext)

(* C26: every call of a handler, each of its awaited steps returning,      *)
(* reaches a returned result, success or failure: the loops over page      *)
(* ranges, input files, line chunks and fragments come to an end.          *)
C26_EveryCallReturns == <>Returned

C26_Witness ==
  /\ Returned /\ ret.success
  /\ req.name = "text_splitter"
  /\ args.splitBy = "lines"
  /\ ParseInt(args.value).val = 1
  /\ Len(loc.parts) = 3

(* ---------------------------------------------------------------------- *)
(* text_diff: the runs of the report and the two inputs.                   *)
(* ---------------------------------------------------------------------- *)

NotAdded(part) == ~part.added
NotRemoved(part) == ~part.removed
Values(parts) == Concat([k \in 1..Len(parts) |-> parts[k].value])
HasDiff == "diff" \in DOMAIN loc

(* C27: the report of text_diff is made of the runs of the diff in their   *)
(* order, each under its prefix of two characters; the values of the runs  *)
(* that are not added, concatenated, are the first input, the values of    *)
(* the runs that are not removed are the second input, and no run is both  *)
(* added and removed.                                                      *)
C27_DiffLossless ==
  HasDiff =>
    /\ loc.diffResult =
         Concat([k \in 1..Len(loc.diff) |->
                   <<IF loc.diff[k].added THEN "+"
                     ELSE IF loc.diff[k].removed THEN "-" ELSE " ", " ">>
                   \o loc.diff[k].value])
    /\ Values(SelectSeq(loc.diff, NotAdded)) = src.file1.text
    /\ Values(SelectSeq(loc.diff, NotRemoved)) = src.file2.text
    /\ \A k \in 1..Len(loc.diff) : ~(loc.diff[k].added /\ loc.diff[k].removed)

C27_Witness ==
  /\ HasDiff
  /\ Returned /\ ret.success
  /\ src.file1.text = <<"a", NL, "b">>
  /\ src.file2.text = <<"a", NL, "c">>
  /\ Len(loc.diff) = 3

(* ---------------------------------------------------------------------- *)
(* Calls without an argument bag.                                          *)
(* ---------------------------------------------------------------------- *)

NoBag == IsCall /\ ~req.hasArgs

(* C28: a call without an argument bag, whatever its tool name, known or   *)
(* not, invokes no handler, touches no file and is answered with the       *)
(* failure "Error: No arguments provided".                                 *)
C28_NoArgumentsFirst ==
  NoBag =>
    /\ calls = <<>>
    /\ disk = {}
    /\ pc \in {"dispatch", "catch", "responded"}
    /\ Responded =>
         resp = [isError |-> TRUE, text |-> <<"Error: ", "No arguments provided">>]

C28_Witness ==
  /\ NoBag
  /\ Responded
  /\ req.name \notin ToolNames
  /\ resp.isError

(* ---------------------------------------------------------------------- *)
(* text_splitter: the values of splitBy.                                   *)
(* ---------------------------------------------------------------------- *)

EnvironmentErrors ==
  {"ENOENT: no such file or directory, open ", "EIO: i/o error, write",
   "EACCES: permission denied, mkdir "}

(* C29: with a splitBy other than "lines", "delimiter" or any other        *)
(* string, text_splitter is not rejected for its splitBy or its value: the *)
(* fragments are the pieces of the input between the occurrences of the    *)
(* value, taken as a literal string and never as a number, and the call    *)
(* fails only on the file system.                                          *)
C29_OtherModesAreDelimiter ==
  args.splitBy # "lines" =>
    /\ "parts" \in DOMAIN loc => loc.parts = SplitStr(src.text, args.value)
    /\ (Returned /\ ~ret.success) => ret.error[1] \in EnvironmentErrors

C29_Witness ==
  /\ args.splitBy \notin {"lines", "delimiter"}
  /\ args.value = <<"2">>
  /\ src.kind = "text" /\ src.text = <<NL, NL, "a">>
  /\ Returned /\ ret.success
  /\ Len(loc.parts) = 1

====
